---- MODULE Spec2Model ----
(***************************************************************************)
(* FloeDyn collision core: the sub-graph scheduler                         *)
(* lcp::LCPManager::solve_contacts (src/src/floe/lcp/LCP_manager.hpp) and  *)
(* the solver driver ope::LCPSolver::solve                                 *)
(* (src/src/floe/ope/LCP_solver.hpp), over a one-dimensional frictionless  *)
(* arrangement of unit-mass floes with integer velocities.                 *)
(*                                                                         *)
(* Scaling.  Complementarity errors are integers in units of 1e-12; the    *)
(* kinetic-energy ratio is kept as the pair (numerator, denominator) and   *)
(* compared by cross-multiplication; gaps (contact.dist) are integers.     *)
(***************************************************************************)
EXTENDS Integers, Sequences, FiniteSets, TLC

VARIABLES
    \* ---- floes and contacts (owned by the simulation) ----
    graph,              \* the contact graph handed to solve_contacts
    pos,                \* floe -> position and orientation (state().pos, .theta)
    vel,                \* floe -> linear velocity   (state().speed)
    rot,                \* floe -> angular velocity  (state().rot)
    impulse,            \* floe -> accumulated impulse (add_impulse)
    solved_flag,        \* contact id -> *m_solved of that FloeContact
    changed,            \* floes flagged by mark_changed_parent
    \* ---- lcp::LCPManager members and the function-level static ----
    m_nb_lcp,
    m_nb_lcp_success,
    end_recording,
    \* ---- locals of solve_contacts ----
    pc,
    subgraphs,
    ci,                 \* index of the current component in subgraphs
    asubgraphs,
    gi,                 \* index of the current graph in asubgraphs
    pieces,             \* quad_cut pieces of asubgraphs[gi] still to solve
    loop_cnt,
    loop_nb_success,    \* the variable declared at line 129 (outer scope)
    loop_nb_success_in, \* the variable declared at line 136 (loop body)
    LCP_count,
    nb_success,
    size_a_sub_graph,
    all_solved,
    ret,                \* value returned by the last solve_contacts call
    \* ---- observation of the run (history) ----
    hist,
    \* ---- ope::LCPSolver::solve, run step by step ----
    drv_in,             \* [g, W]: the sub-graph and the velocities it is built from
    drv,                \* locals of LCPSolver::solve
    \* ---- ope::LCPSolver::LCPtest, called on its own ----
    lcptest_call,
    \* ---- collision::FloeContact objects ----
    contacts,
    \* ---- ope::LCPManager::solve_contacts under OpenMP ----
    ope,
    \* ---- two executions of ope::LCPManager::solve_contacts on one draw sequence ----
    det,
    \* ---- ope::LCPSolver::VRelNtest, called on its own ----
    vreln_call,
    \* ---- io::HDF5Manager ----
    h5

floeVars == <<graph, pos, vel, rot, impulse, solved_flag, changed>>
memberVars == <<m_nb_lcp, m_nb_lcp_success, end_recording>>
localVars == <<pc, subgraphs, ci, asubgraphs, gi, pieces, loop_cnt, loop_nb_success,
               loop_nb_success_in, LCP_count, nb_success, size_a_sub_graph,
               all_solved, ret>>
localVars_but_pc == <<subgraphs, ci, asubgraphs, gi, pieces, loop_cnt, loop_nb_success,
                      loop_nb_success_in, LCP_count, nb_success, size_a_sub_graph,
                      all_solved, ret>>
histVars == <<hist>>
mgrVars == <<floeVars, memberVars, localVars, histVars>>
drvVars == <<drv_in, drv>>
unitVars == <<lcptest_call, contacts, ope, det, vreln_call, h5>>
vars == <<mgrVars, drvVars, unitVars>>

-----------------------------------------------------------------------------
(* Bounds of the model *)

MaxZ == 2            \* normal impulses returned by a pivot solver: 0..MaxZ
MaxCarry == 2        \* a manager that has run LCPs takes a graph only while m_nb_lcp + contacts <= MaxCarry
MaxSucc == 2         \* driver successes in one call of solve_contacts
MaxAgain == 1        \* contacts of a graph that solve_contacts is run on a second time
MaxOpePass == 2      \* passes of one component followed in ope::LCPManager
MaxDraws == 2         \* length of the sequence of std::rand draws given to an execution
MaxCounted == 2       \* passes of a component whose driver calls the history counts
MaxSteps == 250       \* calls of save_step on one HDF5Manager
MaxRecords == 3       \* recorded times of the file recover_states reads
MaxTime == 5          \* largest recorded time
MaxPoints == 2        \* edges of a graph and contact points of an edge handed to VRelNtest
MaxContacts == 5     \* FloeContact objects alive

-----------------------------------------------------------------------------
(* Small helpers *)

Min(a, b) == IF a < b THEN a ELSE b

Abs(x) == IF x < 0 THEN -x ELSE x

RECURSIVE SumOver(_, _)
\* sum of f[x] over the finite set S (f an operator-free function)
SumOver(S, f) ==
    IF S = {} THEN 0
    ELSE LET x == CHOOSE y \in S : TRUE IN f[x] + SumOver(S \ {x}, f)

MinOf(S) == CHOOSE x \in S : \A y \in S : x <= y

-----------------------------------------------------------------------------
(* Contact graphs.  An edge is one FloeContact: the list of e.n contact     *)
(* points between floes e.a and e.b (e.a on the left, normal from a to b),  *)
(* all with gap e.dist, located at (e.x, e.y).                              *)

Edge(id, a, b, n, dist, x, y) ==
    [id |-> id, a |-> a, b |-> b, n |-> n, dist |-> dist, x |-> x, y |-> y]

EmptyGraph == [floes |-> {}, edges |-> {}]

vertices(g) == g.floes

EdgeIds(g) == {e.id : e \in g.edges}

num_contacts(g) == SumOver(g.edges, [e \in g.edges |-> e.n])

Ends(e) == {e.a, e.b}

RECURSIVE Grow(_, _)
\* the floes connected to the set S through the edges E
Grow(S, E) ==
    LET T == S \cup UNION {Ends(e) : e \in {d \in E : Ends(d) \cap S # {}}}
    IN IF T = S THEN S ELSE Grow(T, E)

RECURSIVE ComponentsOf(_, _)
\* connected components of (F, E), lowest floe first
ComponentsOf(F, E) ==
    IF F = {} THEN <<>>
    ELSE LET C == Grow({MinOf(F)}, E)
         IN <<[floes |-> C, edges |-> {e \in E : Ends(e) \subseteq C}]>>
            \o ComponentsOf(F \ C, E)

collision_subgraphs(g) == ComponentsOf(g.floes, g.edges)

\* normal relative velocity of the contacts of edge e under velocities V
VRelN(e, V) == V[e.b] - V[e.a]

ActiveEdge(e, V) == VRelN(e, V) < 0

active_subgraphs(g, V) ==
    LET A == {e \in g.edges : ActiveEdge(e, V)}
    IN ComponentsOf(UNION {Ends(e) : e \in A}, A)

\* quadrant of edge e around the centroid of the contact points of g
Quadrant(e, g) ==
    LET n == num_contacts(g)
        sx == SumOver(g.edges, [d \in g.edges |-> d.n * d.x])
        sy == SumOver(g.edges, [d \in g.edges |-> d.n * d.y])
    IN (IF e.x * n >= sx THEN 1 ELSE 0) + (IF e.y * n >= sy THEN 2 ELSE 0)

RECURSIVE QuadSeq(_, _)
QuadSeq(g, q) ==
    IF q > 3 THEN <<>>
    ELSE LET E == {e \in g.edges : Quadrant(e, g) = q}
         IN (IF E = {} THEN <<>>
             ELSE <<[floes |-> UNION {Ends(e) : e \in E}, edges |-> E]>>)
            \o QuadSeq(g, q + 1)

quad_cut(g) == QuadSeq(g, 0)

-----------------------------------------------------------------------------
(* ope::LCPSolver: the acceptance oracle *)

DT_DEFAULT == 10

TolTier1 == 10        \* 1e-11 in units of 1e-12
TolTier2 == 10000     \* 1e-8  in units of 1e-12
ErrMax == 1000000     \* std::numeric_limits<double>::max()
ErrNaN == -1          \* a NaN error (LCP_error of a z holding an infinity)

\* EC > born_EC * (1 + p/q) for the ratio EC = num/den computed in doubles:
\* 0/0 is NaN (every comparison false), x/0 is +inf for x > 0.
ECgt(EC, born_EC, p, q) ==
    IF EC.den = 0 THEN EC.num > 0
    ELSE EC.num * q > EC.den * born_EC * (q + p)

\* lines 174, 179 call abs unqualified.  Where the headers put abs(double) in
\* the global namespace it is the floating-point absolute value ("double");
\* where they declare only int abs(int) there, Err is converted to int first
\* ("int"), which truncates every error below 1 (every error of this model:
\* one unit is 1e-12) to 0
AbsBuilds == {"double", "int"}

AbsOf(build, x) ==
    IF build = "int" THEN 0 ELSE Abs(x)

\* abs(Err) > tol; a NaN compares false
ErrGt(build, Err, tol) == Err # ErrNaN /\ AbsOf(build, Err) > tol

\* lines 170-188, with the tolerances of tiers 1 and 2 exchanged
LCPtest_Swapped(build, compt, EC, born_EC, Err, VRelNtest) ==
    IF compt = 1
    THEN ~(ECgt(EC, born_EC, 1, 10000) \/ ErrGt(build, Err, TolTier2) \/ ~VRelNtest)
    ELSE IF compt = 2
    THEN ~(ECgt(EC, born_EC, 1, 10000) \/ ErrGt(build, Err, TolTier1) \/ ~VRelNtest)
    ELSE IF compt = 3
    THEN ~(ECgt(EC, born_EC, 1, 100) \/ ~VRelNtest)
    ELSE TRUE

LCPtest(build, compt, EC, born_EC, Err, VRelNtest) ==
    IF compt = 1
    THEN ~(ECgt(EC, born_EC, 1, 10000) \/ ErrGt(build, Err, TolTier1) \/ ~VRelNtest)
    ELSE IF compt = 2
    THEN ~(ECgt(EC, born_EC, 1, 10000) \/ ErrGt(build, Err, TolTier2) \/ ~VRelNtest)
    ELSE IF compt = 3
    THEN ~(ECgt(EC, born_EC, 1, 100) \/ ~VRelNtest)
    ELSE TRUE

\* V: contact edge id -> normal relative velocity after the solve
VRelNtest_Lax(V, g) == TRUE

VRelNtest(V, g) ==
    ~ \E e \in g.edges : V[e.id] < 0 /\ V[e.id] * DT_DEFAULT * 50 > e.dist

\* S M S for a velocity vector S (blocks vx, vy, omega), unit masses and moments
Energy(S, F) == SumOver(F, [f \in F |-> S.v[f] * S.v[f] + S.r[f] * S.r[f]])

\* inner_prod(prod(S, M), S) / inner_prod(prod(w, M), w)
calcEc_Swapped(S, g, w) ==
    [num |-> Energy(w, vertices(g)), den |-> Energy(S, vertices(g))]

calcEc(S, g, w) ==
    [num |-> Energy(S, vertices(g)), den |-> Energy(w, vertices(g))]

-----------------------------------------------------------------------------
(* ope::LCPSolver: solutions *)

\* what a pivot solver leaves in lcp.z
NaNZ == [kind |-> "nan", imp |-> <<>>, err |-> ErrNaN]
InfZ == [kind |-> "inf", imp |-> <<>>, err |-> ErrNaN]
ErrLevels == {0, TolTier1 + 1, TolTier2 + 1}
NumZs(g) == {[kind |-> "num", imp |-> i, err |-> e] :
                i \in [EdgeIds(g) -> 0..MaxZ], e \in ErrLevels}
Zs(g) == NumZs(g) \cup {NaNZ, InfZ}

is_nan_z_Never(z) == FALSE

is_nan_z(z) == z.kind = "nan"

\* LCP_error(lcp_orig) once lcp_orig.z = z
LCP_error(z) == z.err

\* a velocity vector: W, or the Solc computed by calcSol
NoSol == [kind |-> "uninit", v |-> <<>>, r |-> <<>>, imp |-> <<>>]
NaNSol == [kind |-> "nan", v |-> <<>>, r |-> <<>>, imp |-> <<>>]

\* graph_lcp.W: per-floe blocks (vx, vy, omega) of the floes of g
BuildW(g, V, R) ==
    [kind |-> "num",
     v |-> [f \in vertices(g) |-> V[f]],
     r |-> [f \in vertices(g) |-> R[f]],
     imp |-> [f \in vertices(g) |-> 0]]

\* column e of J at floe f: -n at e.a, +n at e.b
J(e, f) == IF f = e.a THEN -1 ELSE IF f = e.b THEN 1 ELSE 0

\* W + invM * (J * z_N + D * z_T), unit masses, central frictionless contacts
calcSol(g, W, z) ==
    IF z.kind # "num" THEN NaNSol
    ELSE [kind |-> "num",
          v |-> [f \in vertices(g) |->
                   W.v[f] + SumOver(g.edges, [e \in g.edges |-> J(e, f) * z.imp[e.id]])],
          r |-> W.r,
          imp |-> [f \in vertices(g) |->
                   SumOver(g.edges, [e \in g.edges |-> Abs(J(e, f)) * z.imp[e.id]])]]

sol_has_nan(S) == S.kind = "nan"

\* prod(trans(J), Solc)
JtSol(g, S) == [i \in EdgeIds(g) |->
                  LET e == CHOOSE d \in g.edges : d.id = i IN S.v[e.b] - S.v[e.a]]

-----------------------------------------------------------------------------
(* ope::LCPSolver::solve( graph, success ) *)

\* lines 87-94, with tier 2 starting one entry early
MatLCP_EarlyTier == <<
    <<1,1>>, <<2,1>>, <<3,1>>,
    <<0,1>>, <<1,1>>, <<2,1>>, <<3,1>>,
    <<0,1>>, <<1,1>>, <<2,1>>, <<3,2>>,
    <<0,2>>, <<1,2>>, <<2,2>>, <<3,2>>,
    <<0,2>>, <<1,2>>, <<2,2>>, <<3,2>>,
    <<0,3>>, <<1,3>>, <<2,3>>, <<3,3>> >>

MatLCP == <<
    <<1,1>>, <<2,1>>, <<3,1>>,
    <<0,1>>, <<1,1>>, <<2,1>>, <<3,1>>,
    <<0,1>>, <<1,1>>, <<2,1>>, <<3,1>>,
    <<0,2>>, <<1,2>>, <<2,2>>, <<3,2>>,
    <<0,2>>, <<1,2>>, <<2,2>>, <<3,2>>,
    <<0,3>>, <<1,3>>, <<2,3>>, <<3,3>> >>

\* MatLCP[i][0] and MatLCP[i][1] for the C++ index i
Tier(i) == MatLCP[i + 1][2]

Strategy_Lemke(i) == 1

Strategy(i) == MatLCP[i + 1][1]

\* outcome of one call of lemke / lexicolemke
PivotResults(g) ==
    {[ok |-> FALSE, z |-> NaNZ]} \cup {[ok |-> TRUE, z |-> z] : z \in Zs(g)}

\* what the environment decides in the loop pass that starts with step counter
\* c: the outcome of the pivot solver when the strategy calls one, and (ub) the
\* outcome of a read past the end of MatLCP when the pass can make one
PivotOutcomes(g, c) ==
    {[ok |-> r.ok, z |-> r.z, ub |-> b] :
        r \in (IF c < Len(MatLCP) /\ Strategy(c) \in {1, 2}
               THEN PivotResults(g) ELSE {[ok |-> FALSE, z |-> NaNZ]}),
        b \in (IF c + 1 < Len(MatLCP) THEN {FALSE} ELSE BOOLEAN)}

SolveInit ==
    [pc |-> "loop", comptchgt |-> 0, solved |-> FALSE, npert |-> 0,
     has_best |-> FALSE, best_z |-> NaNZ, best_Err |-> ErrMax, Solc |-> NoSol,
     success |-> FALSE, ret |-> NoSol, abs |-> "double",
     \* history
     iters |-> 0, tested |-> FALSE, test_iter |-> 0, test_tier |-> 0,
     test_sol |-> NoSol, test_read |-> 0, oob |-> FALSE, exhausted |-> FALSE,
     last |-> "none", min_err |-> ErrMax]

\* the loop runs at most MaxIters times: one pass per table entry and the pass
\* that finds the table exhausted (the history stops counting past it)
MaxIters == Len(MatLCP) + 1

\* line 105
Exhausted(comptchgt) == comptchgt >= Len(MatLCP)

\* line 108: the value returned on exhaustion
ExhaustedReturn_Solc(W, Solc) == Solc

ExhaustedReturn(W, Solc) == W

\* line 129: the step counter after the strategy has run
NextCompt_Stuck(strat, comptchgt) == IF strat = 3 THEN comptchgt ELSE comptchgt + 1

NextCompt(strat, comptchgt) == comptchgt + 1

\* line 141
BetterErr(Err, best_Err) ==
    (Err # ErrNaN /\ best_Err # ErrNaN /\ Err < best_Err) \/ best_Err = ErrMax

\* line 162: the verdict of the acceptance test of this iteration
Verdict_Untested(build, tier, EC, Err, vit) == TRUE

Verdict(build, tier, EC, Err, vit) == LCPtest(build, tier, EC, 1, Err, vit)

\* one pass of the body of while (!solved), lines 103-163, and the return
\* that follows it when solved has become true (lines 164-165)
SolveStep(d, g, W, o) ==
    LET d0 == [d EXCEPT !.iters = IF @ > MaxIters THEN @ ELSE @ + 1] IN
    IF Exhausted(d.comptchgt)
    THEN [d0 EXCEPT !.pc = "returned", !.success = FALSE,
                    !.ret = ExhaustedReturn(W, d.Solc), !.exhausted = TRUE,
                    !.last = "exhausted"]
    ELSE
    LET strat == Strategy(d.comptchgt)
        success == IF strat \in {1, 2} THEN o.ok ELSE FALSE
        z == o.z
        \* history: what this pass met
        met == IF strat \notin {1, 2} THEN "skip"
               ELSE IF ~success THEN "fail"
               ELSE IF z.kind = "nan" THEN "nanz"
               ELSE "z"
        d1 == [d0 EXCEPT !.comptchgt = NextCompt(strat, d.comptchgt),
                         !.npert = IF strat = 0 THEN @ + 1 ELSE @,
                         !.last = met]
    IN
    IF ~success THEN d1
    ELSE IF is_nan_z(z) THEN d1
    ELSE
    LET Err == LCP_error(z)
        better == BetterErr(Err, d.best_Err)
        best_z == IF better THEN z ELSE d.best_z
        best_Err == IF better THEN Err ELSE d.best_Err
        Solc == calcSol(g, W, best_z)
        d2 == [d1 EXCEPT !.has_best = TRUE, !.best_z = best_z,
                         !.best_Err = best_Err, !.Solc = Solc,
                         !.last = IF met = "z" /\ Solc.kind = "nan" THEN "nansol" ELSE met,
                         !.min_err = IF Err # ErrNaN /\ Err < @ THEN Err ELSE @]
    IN
    IF sol_has_nan(Solc) THEN d2
    ELSE
    LET ECc == calcEc(Solc, g, W)
        vitrelnormtest == VRelNtest(JtSol(g, Solc), g)
        inb == d1.comptchgt < Len(MatLCP)
        tier == IF inb THEN Tier(d1.comptchgt) ELSE 0
        solved == IF inb THEN Verdict(d.abs, tier, ECc, best_Err, vitrelnormtest) ELSE o.ub
        d3 == [d2 EXCEPT !.solved = solved, !.tested = TRUE, !.test_iter = d0.iters,
                         !.last = IF met = "z" THEN "tested" ELSE met,
                         !.test_tier = tier, !.test_sol = Solc,
                         !.test_read = d1.comptchgt, !.oob = @ \/ ~inb]
    IN
    IF solved THEN [d3 EXCEPT !.pc = "returned", !.success = TRUE, !.ret = Solc]
    ELSE d3

\* the locals of solve without the history
Locals(d) ==
    [d EXCEPT !.iters = 0, !.tested = FALSE, !.test_iter = 0, !.test_tier = 0,
              !.test_sol = NoSol, !.test_read = 0, !.last = "none",
              !.min_err = ErrMax]

RECURSIVE RunAll(_, _, _, _)
\* every state in which solve can return, started from the states S
RunAll(S, g, W, fuel) ==
    IF S = {} \/ fuel = 0 THEN {}
    ELSE LET N == UNION {{Locals(SolveStep(d, g, W, o)) :
                            o \in PivotOutcomes(g, d.comptchgt)} : d \in S}
         IN {d \in N : d.pc = "returned"}
            \cup RunAll({d \in N : d.pc # "returned"}, g, W, fuel - 1)

\* what the caller sees of one call of solve: success, Sol.  For every key of
\* DriverKeys the set is the same under both readings of abs in LCPtest.
DriverResults(g, W) ==
    {[success |-> d.success, Sol |-> d.ret] : d \in RunAll({SolveInit}, g, W, MaxIters)}

-----------------------------------------------------------------------------
(* Inputs: the contact graphs and floe velocities of an episode *)

Floes == 1..4

\* angular velocities of the floes (central contacts never change them)
Rot0 == [f \in Floes |-> f % 2]

Scenario(F, E, V) == [graph |-> [floes |-> F, edges |-> E], vel |-> V]

Scenarios ==
    { \* no contact at all
      Scenario({1, 2}, {}, <<1, -1, 0, 0>>),
      \* one contact, floes separating
      Scenario({1, 2}, {Edge(1, 1, 2, 1, 1, 0, 0)}, <<-1, 1, 0, 0>>),
      \* one contact, head-on
      Scenario({1, 2}, {Edge(1, 1, 2, 1, 1, 0, 0)}, <<1, -1, 0, 0>>),
      \* one penetrating contact, head-on
      Scenario({1, 2}, {Edge(1, 1, 2, 1, -600, 0, 0)}, <<1, -1, 0, 0>>),
      \* one penetrating contact, slow approach
      Scenario({1, 2}, {Edge(1, 1, 2, 1, -600, 0, 0)}, <<1, 0, 0, 0>>),
      \* three aligned floes, the left one moving right
      Scenario({1, 2, 3}, {Edge(1, 1, 2, 1, 1, 0, 0),
                           Edge(2, 2, 3, 1, 1, 2, 0)}, <<1, 0, 0, 0>>),
      \* three aligned fast floes, the middle one slower
      Scenario({1, 2, 3}, {Edge(1, 1, 2, 1, 1, 0, 0),
                           Edge(2, 2, 3, 1, 1, 2, 0)}, <<15, 14, 15, 0>>),
      \* 52 contact points in one active sub-graph, 26 on each edge
      Scenario({1, 2, 3}, {Edge(1, 1, 2, 26, 1, 0, 0),
                           Edge(2, 2, 3, 26, 1, 2, 0)}, <<1, 0, -1, 0>>),
      \* two components
      Scenario({1, 2, 3, 4}, {Edge(1, 1, 2, 1, 1, 0, 0),
                              Edge(2, 3, 4, 1, 1, 4, 0)}, <<1, -1, 1, 0>>) }

\* two floes striking a third one from the same side, 52 contact points in one
\* active sub-graph
SharedFloeScenario ==
    Scenario({1, 2, 3}, {Edge(1, 1, 3, 26, 1, 0, 0),
                         Edge(2, 2, 3, 26, 1, 2, 0)}, <<1, 2, 0, 0>>)

\* the graphs ope::LCPManager::solve_contacts is called on
OpeScenarios ==
    { \* no contact at all
      Scenario({1, 2}, {}, <<1, -1, 0, 0>>),
      \* one contact, head-on
      Scenario({1, 2}, {Edge(1, 1, 2, 1, 1, 0, 0)}, <<1, -1, 0, 0>>),
      \* two components
      Scenario({1, 2, 3, 4}, {Edge(1, 1, 2, 1, 1, 0, 0),
                              Edge(2, 3, 4, 1, 1, 4, 0)}, <<1, -1, 1, 0>>),
      \* one component of four aligned floes, the middle contact separating
      Scenario({1, 2, 3, 4}, {Edge(1, 1, 2, 1, 1, 0, 0),
                              Edge(2, 2, 3, 1, 1, 2, 0),
                              Edge(3, 3, 4, 1, 1, 4, 0)}, <<1, -1, 1, 0>>) }

SeqRange(s) == {s[i] : i \in 1..Len(s)}

\* line 142: the graphs handed to m_solver.solve for the active sub-graph a
SolvedGraphs(a) == IF num_contacts(a) > 50 THEN quad_cut(a) ELSE <<a>>

\* the driver inputs of the first pass of every scenario
DriverInputs ==
    UNION {UNION {UNION {{[g |-> g, W |-> BuildW(g, s.vel, Rot0)] :
                            g \in SeqRange(SolvedGraphs(a))} :
                         a \in SeqRange(active_subgraphs(c, s.vel))} :
                  c \in SeqRange(collision_subgraphs(s.graph))} :
           s \in Scenarios}

\* history of a manager that has not been called yet
InitHist ==
    [drv_called |-> FALSE, drv_ok |-> 0, gave_up |-> {}, no_active |-> TRUE,
     again |-> FALSE, first |-> [clean |-> TRUE, ok |-> 0], calls |-> <<>>, handed |-> {}, ndrv |-> 0, counted |-> TRUE,
     sunk |-> <<>>, latched |-> FALSE,
     pre |-> [vel |-> [f \in Floes |-> 0], rot |-> Rot0,
              impulse |-> [f \in Floes |-> 0], flags |-> <<>>,
              m_nb_lcp |-> 0, m_nb_lcp_success |-> 0, end_recording |-> FALSE]]

-----------------------------------------------------------------------------
(* ope::LCPSolver::solve, one loop pass per step *)

\* positions and orientations of the floes
Pos0 == [f \in Floes |-> [x |-> 2 * f - 3, theta |-> 0]]

IdleManager ==
    /\ graph = EmptyGraph
    /\ pos = Pos0
    /\ vel = [f \in Floes |-> 0]
    /\ rot = Rot0
    /\ impulse = [f \in Floes |-> 0]
    /\ solved_flag = <<>>
    /\ changed = {}
    /\ m_nb_lcp = 0
    /\ m_nb_lcp_success = 0
    /\ end_recording = FALSE
    /\ pc = "idle"
    /\ subgraphs = <<>>
    /\ ci = 0
    /\ asubgraphs = <<>>
    /\ gi = 0
    /\ pieces = <<>>
    /\ loop_cnt = 0
    /\ loop_nb_success = 0
    /\ loop_nb_success_in = 0
    /\ LCP_count = 0
    /\ nb_success = 0
    /\ size_a_sub_graph = 0
    /\ all_solved = TRUE
    /\ ret = 0
    /\ hist = InitHist

\* nothing else of the program is running
NoCall == [done |-> FALSE]

\* no FloeContact object yet: objs are the objects with the cell their m_solved
\* points to and the constructed object they are copied from, heap the bools made
\* by make_shared, last the argument of the last mark_solved on a constructed
\* object or a copy of it, true when there was none
NoContacts == [objs |-> <<>>, heap |-> <<>>, last |-> <<>>]

\* ope::LCPManager::solve_contacts not called
IdleOpe == [pc |-> "idle"]

\* no HDF5Manager constructed
NoH5 == [pc |-> "none"]

\* no pair of executions
NoDet == [draws |-> <<>>, run |-> <<>>]

IdleUnits ==
    /\ lcptest_call = NoCall
    /\ contacts = NoContacts
    /\ ope = IdleOpe
    /\ det = NoDet
    /\ vreln_call = NoCall
    /\ h5 = NoH5

InitSolver ==
    /\ IdleManager
    /\ IdleUnits
    /\ drv_in \in DriverInputs
    /\ drv \in {[SolveInit EXCEPT !.abs = b] : b \in AbsBuilds}

SolvePass ==
    /\ drv.pc = "loop"
    /\ \E o \in PivotOutcomes(drv_in.g, drv.comptchgt) :
           drv' = SolveStep(drv, drv_in.g, drv_in.W, o)
    /\ UNCHANGED <<mgrVars, drv_in, unitVars>>

NextSolver == SolvePass

SpecSolver == InitSolver /\ [][NextSolver]_vars

SpecSolverFair == SpecSolver /\ WF_vars(NextSolver)

-----------------------------------------------------------------------------
(* The results of the driver, tabulated once for the one-edge sub-graphs of  *)
(* the scenarios and the velocities within the scenarios' range.  The       *)
(* contact points of an edge share one impulse variable, so the result does *)
(* not depend on their number or place.                                     *)

\* g as the builder reads it
AsBuilt(g) ==
    [floes |-> g.floes,
     edges |-> {Edge(e.id, e.a, e.b, 0, e.dist, 0, 0) : e \in g.edges}]

\* the kinetic energy of the floes of scenario s
ScenarioEnergy(s) == Energy([v |-> s.vel, r |-> Rot0], s.graph.floes)

\* An integer impulse that raises the kinetic energy of two floes raises it by 4
\* at least, and LCPtest accepts a rise of one percent at most: below an energy
\* of 400 the speeds stay between the lowest and the highest of the scenario,
\* above it they can leave this range by an impulse.
Headroom(s) == IF ScenarioEnergy(s) * 101 >= (ScenarioEnergy(s) + 4) * 100 THEN MaxZ ELSE 0

SpeedBox(s) ==
    LET S == {s.vel[f] : f \in s.graph.floes}
        lo == MinOf(S)
        hi == -MinOf({-x : x \in S})
    IN (lo - Headroom(s))..(hi + Headroom(s))

\* the one-edge sub-graphs of the scenarios with the velocities that make them
\* active
DriverKeys ==
    UNION {UNION {{[g |-> AsBuilt([floes |-> Ends(e), edges |-> {e}]),
                    W |-> BuildW([floes |-> Ends(e), edges |-> {e}], V, Rot0)] :
                     V \in {U \in [Ends(e) -> SpeedBox(s)] : ActiveEdge(e, U)}} :
                  e \in s.graph.edges} :
           s \in Scenarios \cup OpeScenarios \cup {SharedFloeScenario}}

DriverTable == {<<k, DriverResults(k.g, k.W)>> : k \in DriverKeys}

-----------------------------------------------------------------------------
(* lcp::LCPManager::solve_contacts *)

\* what m_solver.solve returns to the manager: success and Sol, for every run
\* of the strategy table
DriverOut(g, W) ==
    LET k == [g |-> AsBuilt(g), W |-> W]
    IN IF k \in DriverKeys
       THEN (CHOOSE p \in DriverTable : p[1] = k)[2]
       ELSE DriverResults(g, W)

\* FloeContact::mark_solved on every contact of g
mark_solved_All(flags, g, solved) == [i \in DOMAIN flags |-> solved]

mark_solved(flags, g, solved) ==
    [i \in DOMAIN flags |-> IF i \in EdgeIds(g) THEN solved ELSE flags[i]]

\* line 133: the bound on the number of passes
LoopCap_Thirty(n) == Min(30 * n, 1000)

LoopCap(n) == Min(60 * n, 1000)

\* lines 132-134
LoopCond_Inclusive(na, cnt, n, lns) == na # 0 /\ cnt <= LoopCap(n) /\ lns # 0

LoopCond(na, cnt, n, lns) == na # 0 /\ cnt < LoopCap(n) /\ lns # 0

\* line 164
AddSuccess_Outer(nb, inner, outer) == nb + outer

AddSuccess(nb, inner, outer) == nb + inner

\* line 178: the flag written on the final give-up
GiveUpFlag_Solved == TRUE

GiveUpFlag == FALSE

\* lines 104, 118 (commented out): LCP_count when a component is entered
CountOnEntry_BigLCP(count) == count + 1

CountOnEntry(count) == count

\* update_floes_state, lines 262-270
WriteSpeed_First(old, g, Sol) ==
    [f \in DOMAIN old |-> IF f \in vertices(g) THEN Sol.v[MinOf(vertices(g))] ELSE old[f]]

WriteSpeed(old, g, Sol) ==
    [f \in DOMAIN old |-> IF f \in vertices(g) THEN Sol.v[f] ELSE old[f]]

WriteRot_All(old, g, Sol) ==
    [f \in DOMAIN old |-> IF f \in vertices(g) THEN Sol.r[f] ELSE 0]

WriteRot(old, g, Sol) ==
    [f \in DOMAIN old |-> IF f \in vertices(g) THEN Sol.r[f] ELSE old[f]]

AddImpulse(old, g, Sol) ==
    [f \in DOMAIN old |-> IF f \in vertices(g) THEN old[f] + Sol.imp[f] ELSE old[f]]

subgraph == subgraphs[ci]

\* history of one call: whether the driver was run and how often it succeeded, the
\* contacts marked by the final give-up, the contacts of the graphs the driver
\* was called on in the running pass and in the whole call and the number of
\* these calls (counted as long as no component has run more than MaxCounted
\* passes), the components saving_contact_graph_in_hdf5 was called for and
\* whether it has ever returned true, whether the call repeats the one before
\* and how that one ended, and the state the call started from
NewHist(s) ==
    [drv_called |-> FALSE, drv_ok |-> 0, gave_up |-> {},
     no_active |-> \A e \in s.graph.edges : ~ActiveEdge(e, s.vel),
     again |-> FALSE, first |-> [clean |-> TRUE, ok |-> 0], calls |-> <<>>, handed |-> {}, ndrv |-> 0, counted |-> TRUE,
     sunk |-> <<>>, latched |-> hist.latched,
     pre |-> [vel |-> [f \in Floes |-> s.vel[f]], rot |-> Rot0,
              impulse |-> [f \in Floes |-> 0],
              flags |-> [i \in EdgeIds(s.graph) |-> TRUE],
              m_nb_lcp |-> m_nb_lcp, m_nb_lcp_success |-> m_nb_lcp_success,
              end_recording |-> end_recording]]

IdleDriver ==
    /\ drv_in = [g |-> EmptyGraph, W |-> NoSol]
    /\ drv = SolveInit

Init ==
    /\ IdleManager
    /\ IdleUnits
    /\ IdleDriver

\* lines 103-105: a call of solve_contacts on the graph of scenario s
Call ==
    /\ pc = "idle"
    /\ \E s \in Scenarios :
        /\ m_nb_lcp > 0 => m_nb_lcp + num_contacts(s.graph) <= MaxCarry
        /\ graph' = s.graph
        /\ vel' = [f \in Floes |-> s.vel[f]]
        /\ solved_flag' = [i \in EdgeIds(s.graph) |-> TRUE]
        /\ subgraphs' = collision_subgraphs(s.graph)
        /\ hist' = NewHist(s)
    /\ pos' = Pos0
    /\ rot' = Rot0
    /\ impulse' = [f \in Floes |-> 0]
    /\ changed' = {}
    /\ LCP_count' = 0
    /\ nb_success' = 0
    /\ ci' = 1
    /\ pc' = "for"
    /\ UNCHANGED <<memberVars, asubgraphs, gi, pieces, loop_cnt, loop_nb_success,
                   loop_nb_success_in, size_a_sub_graph, all_solved, ret, drvVars, unitVars>>

\* lines 103-105: a first call of solve_contacts on the graph of
\* SharedFloeScenario
CallShared ==
    /\ pc = "idle"
    /\ graph = EmptyGraph
    /\ graph' = SharedFloeScenario.graph
    /\ vel' = [f \in Floes |-> SharedFloeScenario.vel[f]]
    /\ solved_flag' = [i \in EdgeIds(SharedFloeScenario.graph) |-> TRUE]
    /\ subgraphs' = collision_subgraphs(SharedFloeScenario.graph)
    /\ hist' = NewHist(SharedFloeScenario)
    /\ pos' = Pos0
    /\ rot' = Rot0
    /\ impulse' = [f \in Floes |-> 0]
    /\ changed' = {}
    /\ LCP_count' = 0
    /\ nb_success' = 0
    /\ ci' = 1
    /\ pc' = "for"
    /\ UNCHANGED <<memberVars, asubgraphs, gi, pieces, loop_cnt, loop_nb_success,
                   loop_nb_success_in, size_a_sub_graph, all_solved, ret, drvVars, unitVars>>

\* lines 103-105: solve_contacts called once more on the same graph, with the
\* floe states the call before has left
CallAgain ==
    /\ pc = "idle"
    /\ graph # EmptyGraph
    /\ ~hist.again
    /\ num_contacts(graph) <= MaxAgain
    /\ subgraphs' = collision_subgraphs(graph)
    /\ hist' = [drv_called |-> FALSE, drv_ok |-> 0, gave_up |-> {},
                no_active |-> \A e \in graph.edges : ~ActiveEdge(e, vel),
                again |-> TRUE, calls |-> <<>>, handed |-> {}, ndrv |-> 0, counted |-> TRUE,
                sunk |-> <<>>, latched |-> hist.latched,
                first |-> [clean |-> hist.gave_up = {}, ok |-> hist.drv_ok],
                pre |-> [vel |-> vel, rot |-> rot, impulse |-> impulse,
                         flags |-> solved_flag,
                         m_nb_lcp |-> m_nb_lcp, m_nb_lcp_success |-> m_nb_lcp_success,
                         end_recording |-> end_recording]]
    /\ changed' = {}
    /\ LCP_count' = 0
    /\ nb_success' = 0
    /\ ci' = 1
    /\ pc' = "for"
    /\ UNCHANGED <<graph, pos, vel, rot, impulse, solved_flag, memberVars, asubgraphs,
                   gi, pieces, loop_cnt, loop_nb_success, loop_nb_success_in,
                   size_a_sub_graph, all_solved, ret, drvVars, unitVars>>

\* lines 115-131: the next component
BeginComponent ==
    /\ pc = "for"
    /\ ci <= Len(subgraphs)
    /\ asubgraphs' = active_subgraphs(subgraph, vel)
    /\ loop_cnt' = 0
    /\ loop_nb_success' = -1
    /\ size_a_sub_graph' = Len(asubgraphs')
    /\ all_solved' = TRUE
    /\ LCP_count' = CountOnEntry(LCP_count)
    /\ pc' = "while"
    /\ UNCHANGED <<floeVars, memberVars, subgraphs, ci, gi, pieces,
                   loop_nb_success_in, nb_success, ret, histVars, drvVars, unitVars>>

\* line 142: if (num_contacts(graph) > 50)
CutAbove_Never(a) == FALSE

CutAbove(a) == num_contacts(a) > 50

\* line 142: the pieces of the active sub-graph a when it is cut
PiecesOf(a) == IF CutAbove(a) THEN quad_cut(a) ELSE <<>>

\* lines 132-138: the loop condition holds, a pass starts
EnterPass ==
    /\ pc = "while"
    /\ LoopCond(Len(asubgraphs), loop_cnt, num_contacts(subgraph), loop_nb_success)
    /\ loop_nb_success_in' = 0
    /\ LCP_count' = LCP_count + Len(asubgraphs)
    /\ gi' = 1
    /\ pieces' = PiecesOf(asubgraphs[1])
    /\ pc' = "pass"
    /\ UNCHANGED <<floeVars, memberVars, subgraphs, ci, asubgraphs, loop_cnt,
                   loop_nb_success, nb_success, size_a_sub_graph, all_solved, ret,
                   histVars, drvVars, unitVars>>

\* m_solver.solve( g, success ); mark_solved(g, success);
\* if (success) loop_nb_success++; update_floes_state(g, Sol);
SolveAndWrite(g) ==
    \E r \in DriverOut(g, BuildW(g, vel, rot)) :
        /\ r.success => hist.drv_ok < MaxSucc
        /\ solved_flag' = mark_solved(solved_flag, g, r.success)
        /\ loop_nb_success_in' = loop_nb_success_in + (IF r.success THEN 1 ELSE 0)
        /\ vel' = WriteSpeed(vel, g, r.Sol)
        /\ rot' = WriteRot(rot, g, r.Sol)
        /\ impulse' = AddImpulse(impulse, g, r.Sol)
        /\ hist' = [hist EXCEPT
                      !.drv_called = TRUE,
                      !.calls = Append(@, EdgeIds(g)),
                      !.handed = @ \cup EdgeIds(g),
                      !.ndrv = IF hist.counted THEN @ + 1 ELSE 0,
                      !.drv_ok = @ + (IF r.success THEN 1 ELSE 0)]

\* line 156 and the step of the for loop of line 139
NextGraph ==
    /\ changed' = changed \cup vertices(asubgraphs[gi])
    /\ gi' = gi + 1
    /\ pieces' = IF gi + 1 <= Len(asubgraphs) THEN PiecesOf(asubgraphs[gi + 1]) ELSE <<>>

\* the graph the next call of m_solver.solve is made on
CurrentGraph == IF pieces # <<>> THEN Head(pieces) ELSE asubgraphs[gi]

\* lines 150-156: an active sub-graph of at most 50 contacts
SolveWhole ==
    /\ pc = "pass"
    /\ gi <= Len(asubgraphs)
    /\ ~CutAbove(asubgraphs[gi])
    /\ SolveAndWrite(asubgraphs[gi])
    /\ NextGraph
    /\ UNCHANGED <<graph, pos, memberVars, pc, subgraphs, ci, asubgraphs, loop_cnt,
                   loop_nb_success, LCP_count, nb_success, size_a_sub_graph,
                   all_solved, ret, drvVars, unitVars>>

\* lines 142-149 and 156: the next piece of an active sub-graph of more than
\* 50 contacts
SolvePiece ==
    /\ pc = "pass"
    /\ gi <= Len(asubgraphs)
    /\ CutAbove(asubgraphs[gi])
    /\ pieces # <<>>
    /\ SolveAndWrite(Head(pieces))
    /\ IF Tail(pieces) # <<>>
       THEN /\ pieces' = Tail(pieces)
            /\ UNCHANGED <<gi, changed>>
       ELSE NextGraph
    /\ UNCHANGED <<graph, pos, memberVars, pc, subgraphs, ci, asubgraphs, loop_cnt,
                   loop_nb_success, LCP_count, nb_success, size_a_sub_graph,
                   all_solved, ret, drvVars, unitVars>>

\* line 159: asubgraphs = active_subgraphs( subgraph );
ActiveAfterPass_None(g, V) == <<>>

ActiveAfterPass(g, V) == active_subgraphs(g, V)

\* lines 159-165: the end of a pass
EndPass ==
    /\ pc = "pass"
    /\ gi > Len(asubgraphs)
    /\ asubgraphs' = ActiveAfterPass(subgraph, vel)
    /\ nb_success' = AddSuccess(nb_success, loop_nb_success_in, loop_nb_success)
    /\ loop_cnt' = loop_cnt + 1
    /\ pc' = "while"
    /\ hist' = [hist EXCEPT !.calls = <<>>,
                            !.counted = @ /\ loop_cnt < MaxCounted,
                            !.ndrv = IF hist.counted /\ loop_cnt < MaxCounted THEN @ ELSE 0]
    /\ UNCHANGED <<floeVars, memberVars, subgraphs, ci, gi, pieces, loop_nb_success,
                   loop_nb_success_in, LCP_count, size_a_sub_graph, all_solved, ret,
                   drvVars, unitVars>>

\* the contacts of the active sub-graphs
ActiveIds == UNION {EdgeIds(asubgraphs[k]) : k \in 1..Len(asubgraphs)}

\* lines 132-134 and 173-179: the loop condition fails with active sub-graphs
\* left
GiveUp ==
    /\ pc = "while"
    /\ ~LoopCond(Len(asubgraphs), loop_cnt, num_contacts(subgraph), loop_nb_success)
    /\ Len(asubgraphs) # 0
    /\ all_solved' = FALSE
    /\ LCP_count' = LCP_count + Len(asubgraphs)
    /\ solved_flag' = [i \in DOMAIN solved_flag |->
                         IF i \in ActiveIds THEN GiveUpFlag ELSE solved_flag[i]]
    /\ hist' = [hist EXCEPT !.gave_up = @ \cup ActiveIds]
    /\ pc' = "record"
    /\ UNCHANGED <<graph, pos, vel, rot, impulse, changed, memberVars, subgraphs, ci,
                   asubgraphs, gi, pieces, loop_cnt, loop_nb_success,
                   loop_nb_success_in, nb_success, size_a_sub_graph, ret, drvVars, unitVars>>

\* lines 132-134 and 173: the loop condition fails with no active sub-graph left
Resolved ==
    /\ pc = "while"
    /\ ~LoopCond(Len(asubgraphs), loop_cnt, num_contacts(subgraph), loop_nb_success)
    /\ Len(asubgraphs) = 0
    /\ pc' = "record"
    /\ UNCHANGED <<floeVars, memberVars, localVars_but_pc, histVars, drvVars, unitVars>>

\* line 186: the condition under which saving_contact_graph_in_hdf5 is called
SinkCond_NoLatch(ended, size) == size # 0

SinkCond(ended, size) == ~ended /\ size # 0

\* lines 186-188: the diagnostic sink, whose answer depends on the HDF5 file
Record ==
    /\ pc = "record"
    /\ IF SinkCond(end_recording, size_a_sub_graph)
       THEN \E r \in BOOLEAN :
              /\ end_recording' = r
              /\ hist' = [hist EXCEPT
                            !.sunk = Append(@, [ci |-> ci, size |-> size_a_sub_graph]),
                            !.latched = @ \/ r]
       ELSE UNCHANGED <<end_recording, hist>>
    /\ ci' = ci + 1
    /\ pc' = "for"
    /\ UNCHANGED <<floeVars, m_nb_lcp, m_nb_lcp_success, subgraphs, asubgraphs, gi,
                   pieces, loop_cnt, loop_nb_success, loop_nb_success_in, LCP_count,
                   nb_success, size_a_sub_graph, all_solved, ret, drvVars, unitVars>>

\* line 60: success_ratio(), as the fraction num / den
success_ratio ==
    IF m_nb_lcp = 0 THEN [num |-> 100, den |-> 1]
    ELSE [num |-> 100 * m_nb_lcp_success, den |-> m_nb_lcp]

\* lines 246-256; the locals go out of scope
Return ==
    /\ pc = "for"
    /\ ci > Len(subgraphs)
    /\ m_nb_lcp' = m_nb_lcp + LCP_count
    /\ m_nb_lcp_success' = m_nb_lcp_success + nb_success
    /\ ret' = nb_success
    /\ pc' = "idle"
    /\ subgraphs' = <<>>
    /\ ci' = 0
    /\ asubgraphs' = <<>>
    /\ gi' = 0
    /\ pieces' = <<>>
    /\ loop_cnt' = 0
    /\ loop_nb_success' = 0
    /\ loop_nb_success_in' = 0
    /\ LCP_count' = 0
    /\ nb_success' = 0
    /\ size_a_sub_graph' = 0
    /\ all_solved' = TRUE
    /\ UNCHANGED <<floeVars, end_recording, histVars, drvVars, unitVars>>

Next ==
    \/ Call
    \/ BeginComponent
    \/ EnterPass
    \/ SolveWhole
    \/ SolvePiece
    \/ EndPass
    \/ GiveUp
    \/ Resolved
    \/ Record
    \/ Return

Spec == Init /\ [][Next]_vars

\* the manager with second runs on the graph of the call before
NextAgain ==
    \/ Next
    \/ CallAgain

SpecAgain == Init /\ [][NextAgain]_vars

\* solve_contacts is sequential code: a call that has begun keeps running
SpecFair == Spec /\ WF_vars(Next)

NextShared ==
    \/ CallShared
    \/ BeginComponent
    \/ EnterPass
    \/ SolveWhole
    \/ SolvePiece
    \/ EndPass
    \/ GiveUp
    \/ Resolved
    \/ Record
    \/ Return

SpecShared == Init /\ [][NextShared]_vars

-----------------------------------------------------------------------------
(* Properties of lcp::LCPManager::solve_contacts (specification Spec) *)

\* the step of the current behaviour is a call of m_solver.solve and its
\* writeback (SolveWhole or SolvePiece)
DriverStep == pc = "pass" /\ gi <= Len(asubgraphs) /\ hist'.drv_called

\* ... and that call reported success = false
FailedDriverStep == DriverStep /\ hist'.drv_ok = hist.drv_ok

\* contact i has its solved flag set from true to false in this step
SetFalse(i) == pc # "idle" /\ solved_flag[i] /\ ~solved_flag'[i]

\* C1: while a component is processed, the number of passes of the outer
\* while loop (loop_cnt) never exceeds min(60 * num_contacts(C), 1000),
\* whatever the driver answers.
C1_LoopCntWithinCap ==
    pc \in {"while", "pass", "record"} =>
        loop_cnt <= Min(60 * num_contacts(subgraph), 1000)

\* a component of 52 contacts gives up after exactly 1000 passes
C1_Witness ==
    /\ pc = "record"
    /\ num_contacts(subgraph) = 52
    /\ loop_cnt = 1000
    /\ ~all_solved

\* C2: after a complete pass without any driver success the loop of the
\* component does not start another pass.
C2_ProgressGuard ==
    [][(pc = "while" /\ loop_cnt > 0 /\ loop_nb_success_in = 0) => pc' # "pass"]_vars

\* C3 (as stated): a solved flag goes from true to false only in the final
\* give-up step, never inside the loop.
C3_FalseOnlyOnGiveUp ==
    [][\A i \in DOMAIN solved_flag :
          SetFalse(i) => (pc = "while" /\ pc' = "record")]_vars

\* C3 (amended): a solved flag goes from true to false only in the final
\* give-up step, for a contact of a remaining active sub-graph, or inside the
\* loop in mark_solved(g, success) after a driver call on a graph g holding the
\* contact has reported success = false.
C3_FalseOnFailureOrGiveUp ==
    [][\A i \in DOMAIN solved_flag :
          SetFalse(i) =>
              \/ pc = "while" /\ pc' = "record" /\ i \in ActiveIds
              \/ FailedDriverStep /\ i \in EdgeIds(CurrentGraph)]_vars

\* inside the loop, before any give-up, a contact is flagged unsolved
C3_Witness ==
    /\ pc = "pass"
    /\ hist.gave_up = {}
    /\ hist.drv_ok > 0
    /\ \E i \in DOMAIN solved_flag : ~solved_flag[i]

C5_ReturnCountsSuccesses ==
    pc = "idle" => ret = hist.drv_ok

\* a call has returned 2 after giving up on a sub-graph as well
C5_Witness ==
    /\ pc = "idle"
    /\ ret = 2
    /\ hist.gave_up # {}

\* C6: a call on a graph none of whose contacts is active runs no driver,
\* returns 0 and leaves velocities, angular velocities, impulses, solved flags
\* and the counters m_nb_lcp and m_nb_lcp_success as they were.
C6_NoContactNoEffect ==
    (pc = "idle" /\ hist.no_active) =>
        /\ ret = 0
        /\ ~hist.drv_called
        /\ vel = hist.pre.vel
        /\ rot = hist.pre.rot
        /\ impulse = hist.pre.impulse
        /\ solved_flag = hist.pre.flags
        /\ m_nb_lcp = hist.pre.m_nb_lcp
        /\ m_nb_lcp_success = hist.pre.m_nb_lcp_success

\* a manager that has already counted LCPs has returned from a call on two
\* floes without contact
C6_Witness ==
    /\ pc = "idle"
    /\ hist.no_active
    /\ graph.floes # {}
    /\ graph.edges = {}
    /\ m_nb_lcp > 0
    /\ m_nb_lcp_success > 0

-----------------------------------------------------------------------------
(* Properties of ope::LCPSolver::solve (specifications SpecSolver and        *)
(* SpecSolverFair)                                                          *)

\* C7: when the strategy table is exhausted, solve reports success = false and
\* returns the velocity W built from the sub-graph, not a computed Solc.
C7_ExhaustionReturnsW ==
    (drv.pc = "returned" /\ drv.exhausted) =>
        /\ ~drv.success
        /\ drv.ret = drv_in.W

\* the table is exhausted after a Solc different from W has been computed
C7_Witness ==
    /\ drv.pc = "returned"
    /\ drv.exhausted
    /\ drv.Solc.kind = "num"
    /\ drv.Solc # drv_in.W

\* C9: a call of solve makes at most 23 steps of the strategy table (at most
\* 24 passes of its loop) and returns.
C9_AtMost23StepsAndReturns ==
    /\ [](drv.comptchgt <= 23 /\ drv.iters <= 24)
    /\ <>(drv.pc = "returned")

\* all 23 entries are used up and solve returns in the 24th pass
C9_Witness ==
    /\ drv.pc = "returned"
    /\ drv.comptchgt = 23
    /\ drv.iters = 24

\* C10: solve returns success = true only with the Solc computed from the
\* best z so far, tested by LCPtest in the pass that returns, on an entry of
\* the table, and accepted by it.
C10_SuccessOnlyIfTested ==
    (drv.pc = "returned" /\ drv.success) =>
        /\ drv.has_best
        /\ drv.ret = calcSol(drv_in.g, drv_in.W, drv.best_z)
        /\ drv.tested
        /\ drv.test_iter = drv.iters
        /\ drv.test_sol = drv.ret
        /\ drv.test_read < Len(MatLCP)
        /\ LCPtest(drv.abs, Tier(drv.test_read),
                   calcEc(drv.ret, drv_in.g, drv_in.W), 1, drv.best_Err,
                   VRelNtest(JtSol(drv_in.g, drv.ret), drv_in.g))

\* a solution is accepted at the last tier after earlier ones were rejected
C10_Witness ==
    /\ drv.pc = "returned"
    /\ drv.success
    /\ drv.iters > 12
    /\ drv.best_Err > TolTier2
    /\ drv.ret # drv_in.W

-----------------------------------------------------------------------------
(* ope::LCPSolver::LCPtest called on its own (specification SpecLCPtest) *)

\* energy ratios around 1, 1 + 1e-4 and 1 + 1e-2
RhoInputs ==
    {[num |-> k, den |-> 10000] : k \in {9999, 10000, 10001, 10002, 10100, 10101}}

\* errors around the two tolerances, of both signs
ErrInputs ==
    LET P == {0, TolTier1, TolTier1 + 1, TolTier2, TolTier2 + 1}
    IN P \cup {-e : e \in P}

LCPtestInputs ==
    [build : AbsBuilds, compt : 1..3, EC : RhoInputs, Err : ErrInputs,
     VRelNtest : BOOLEAN]

InitLCPtest ==
    /\ IdleManager
    /\ IdleDriver
    /\ contacts = NoContacts
    /\ ope = IdleOpe
    /\ det = NoDet
    /\ vreln_call = NoCall
    /\ h5 = NoH5
    /\ lcptest_call \in {[done |-> FALSE, in |-> i] : i \in LCPtestInputs}

\* lines 170-188
CallLCPtest ==
    /\ ~lcptest_call.done
    /\ lcptest_call' =
          [done |-> TRUE, in |-> lcptest_call.in,
           resp |-> LET i == lcptest_call.in
                    IN LCPtest(i.build, i.compt, i.EC, 1, i.Err, i.VRelNtest)]
    /\ UNCHANGED <<mgrVars, drvVars, contacts, ope, det, vreln_call, h5>>

NextLCPtest == CallLCPtest

SpecLCPtest == InitLCPtest /\ [][NextLCPtest]_vars

\* C11: LCPtest(t, rho, 1, Err, V) answers true exactly when rho <= 1 + 1e-4,
\* |Err| <= 1e-11 and V (t = 1); rho <= 1 + 1e-4, |Err| <= 1e-8 and V (t = 2);
\* rho <= 1 + 1e-2 and V (t = 3).
C11_LCPtestIsReference ==
    lcptest_call.done =>
        LET i == lcptest_call.in
            rho == i.EC
        IN lcptest_call.resp =
             IF i.compt = 1
             THEN rho.num * 10000 <= rho.den * 10001 /\ Abs(i.Err) <= 10 /\ i.VRelNtest
             ELSE IF i.compt = 2
             THEN rho.num * 10000 <= rho.den * 10001 /\ Abs(i.Err) <= 10000
                  /\ i.VRelNtest
             ELSE rho.num * 100 <= rho.den * 101 /\ i.VRelNtest

-----------------------------------------------------------------------------
(* Properties of the best-so-far tracking and of the skipped steps of        *)
(* ope::LCPSolver::solve (specification SpecSolver)                         *)

\* this pass got a z without NaN from a pivot solver that reported success
AttemptWithZ == drv.last \in {"nansol", "tested"}

\* C12: after every attempt that yields a solver success with a NaN-free z,
\* best_Err is the minimum error over these attempts, best_z attains it, the
\* acceptance test of the pass is made on the Solc of best_z, and best_Err
\* never increases.
C12_BestIsMinimum ==
    /\ [](AttemptWithZ /\ drv.min_err # ErrMax =>
            /\ drv.best_Err = drv.min_err
            /\ LCP_error(drv.best_z) = drv.best_Err
            /\ (drv.last = "tested" =>
                    drv.test_sol = calcSol(drv_in.g, drv_in.W, drv.best_z)))
    /\ [][drv.best_Err # ErrNaN /\ drv'.best_Err # ErrNaN =>
              drv'.best_Err <= drv.best_Err]_vars

\* C13: a step whose pivot solver fails, or whose z or Solc holds a NaN, does
\* not set solved, does not run the acceptance test and is followed by the next
\* table entry; with a NaN z, best_z and best_Err stay as they were.
C13_SilentSkip ==
    [][drv.pc = "loop" /\ drv'.last \in {"fail", "nanz", "nansol"} =>
          /\ drv'.pc = "loop"
          /\ ~drv'.solved
          /\ drv'.test_iter = drv.test_iter
          /\ drv'.comptchgt = drv.comptchgt + 1
          /\ (drv'.last = "nanz" =>
                  /\ drv'.best_z = drv.best_z
                  /\ drv'.best_Err = drv.best_Err
                  /\ drv'.has_best = drv.has_best)]_vars

\* a NaN z has been skipped after a best z had been stored and rejected
C13_Witness ==
    /\ drv.pc = "loop"
    /\ drv.last = "nanz"
    /\ drv.has_best
    /\ drv.tested

-----------------------------------------------------------------------------
(* The velocities accepted by ope::LCPSolver::solve (specification           *)
(* SpecSolver)                                                              *)

\* normal relative velocity of contact e in the returned velocities
PostVRelN(e) == JtSol(drv_in.g, drv.ret)[e.id]

Accepted == drv.pc = "returned" /\ drv.success

\* C14 (as stated): every contact of an accepted sub-graph has
\* u * DT_DEFAULT <= gap / 50 after the solve, whatever the signs of u and gap.
C14_VelocityBelowGap ==
    Accepted => \A e \in drv_in.g.edges : PostVRelN(e) * DT_DEFAULT * 50 <= e.dist

\* C14 (amended): every contact of an accepted sub-graph has, after the solve,
\* u >= 0 or u * DT_DEFAULT <= gap / 50.
C14_ApproachBelowGap ==
    Accepted =>
        \A e \in drv_in.g.edges :
            PostVRelN(e) >= 0 \/ PostVRelN(e) * DT_DEFAULT * 50 <= e.dist

\* a sub-graph is accepted whose contact still approaches, in a penetration
\* deep enough for the test
C14_Witness ==
    /\ Accepted
    /\ \E e \in drv_in.g.edges : PostVRelN(e) < 0 /\ e.dist < 0

-----------------------------------------------------------------------------
(* P1, kinetic energy across solve_contacts *)

\* the kinetic energy of all the floes now, and when the running call began
EnergyNow == Energy([v |-> vel, r |-> rot], Floes)
EnergyAtCall == Energy([v |-> hist.pre.vel, r |-> hist.pre.rot], Floes)

\* the kinetic energy of the floes F
EnergyOf(F) == Energy([v |-> vel, r |-> rot], F)

\* C15: when solve_contacts has returned, the kinetic energy of the floes is at
\* most 1.01 times their kinetic energy when it was called.  A driver call that
\* is not accepted returns W, so only accepted calls change velocities.
C15_EnergyBoundedOverCall ==
    pc = "idle" => EnergyNow * 100 <= EnergyAtCall * 101

\* C15, amended: each accepted driver call leaves the kinetic energy of the
\* floes of its sub-graph at most 1.01 times their kinetic energy before it.
C15_EnergyBoundedPerSolve ==
    [][DriverStep /\ hist'.drv_ok > hist.drv_ok
         => \A F \in {vertices(CurrentGraph)} :
                Energy([v |-> vel', r |-> rot'], F) * 100 <= EnergyOf(F) * 101]_vars

\* an accepted driver call has raised the kinetic energy
C15_Witness ==
    pc = "pass" /\ hist.drv_ok > 0 /\ EnergyNow > EnergyAtCall

-----------------------------------------------------------------------------
(* P4, solve_contacts run twice on one graph *)

\* C16: a second run of solve_contacts on the same graph, with the velocities
\* the first run has left, returns 0 whatever the outcome of the first run.
C16_SecondRunReturnsZero ==
    pc = "idle" /\ hist.again => ret = 0

\* C16, amended: when the first run has ended without giving up a component,
\* the second run makes no driver call and returns 0.
C16_SecondRunAfterCleanFirst ==
    pc = "idle" /\ hist.again /\ hist.first.clean => ret = 0 /\ ~hist.drv_called

\* a second run has returned after a first run that solved a contact and gave
\* up nothing
C16_Witness ==
    pc = "idle" /\ hist.again /\ hist.first.clean /\ hist.first.ok > 0

-----------------------------------------------------------------------------
(* collision::FloeContact, the solved flag (specification SpecContact) *)

\* line 36: is_solved() of object i
is_solved(c, i) == c.heap[c.objs[i].cell]

\* lines 30-32: a constructor; m_solved{std::make_shared<bool> (true)}
NewContact(c) ==
    [objs |-> Append(c.objs, [cell |-> Len(c.heap) + 1, from |-> Len(c.objs) + 1]),
     heap |-> Append(c.heap, TRUE),
     last |-> Append(c.last, TRUE)]

\* line 33: the defaulted copy constructor, applied to object i
CopyContact_Deep(c, i) ==
    [objs |-> Append(c.objs, [cell |-> Len(c.heap) + 1, from |-> c.objs[i].from]),
     heap |-> Append(c.heap, is_solved(c, i)),
     last |-> Append(c.last, TRUE)]

CopyContact(c, i) ==
    [objs |-> Append(c.objs, c.objs[i]),
     heap |-> c.heap,
     last |-> Append(c.last, TRUE)]

\* line 35: mark_solved(solved) on object i
MarkContact(c, i, solved) ==
    [c EXCEPT !.heap[c.objs[i].cell] = solved,
              !.last[c.objs[i].from] = solved]

InitContact ==
    /\ IdleManager
    /\ IdleDriver
    /\ lcptest_call = NoCall
    /\ ope = IdleOpe
    /\ det = NoDet
    /\ vreln_call = NoCall
    /\ h5 = NoH5
    /\ contacts = NoContacts

Construct ==
    /\ Len(contacts.objs) < MaxContacts
    /\ contacts' = NewContact(contacts)
    /\ UNCHANGED <<mgrVars, drvVars, lcptest_call, ope, det, vreln_call, h5>>

Copy ==
    /\ Len(contacts.objs) < MaxContacts
    /\ \E i \in DOMAIN contacts.objs : contacts' = CopyContact(contacts, i)
    /\ UNCHANGED <<mgrVars, drvVars, lcptest_call, ope, det, vreln_call, h5>>

Mark ==
    /\ \E i \in DOMAIN contacts.objs, solved \in BOOLEAN :
          contacts' = MarkContact(contacts, i, solved)
    /\ UNCHANGED <<mgrVars, drvVars, lcptest_call, ope, det, vreln_call, h5>>

NextContact ==
    \/ Construct
    \/ Copy
    \/ Mark

SpecContact == InitContact /\ [][NextContact]_vars

\* C17: a contact and its copies, direct or through a chain of copies, report
\* the same is_solved(), which is the argument of the last mark_solved on any
\* of them, and true when none of them was marked.
C17_CopiesShareSolved ==
    \A i, j \in DOMAIN contacts.objs :
        contacts.objs[i].from = contacts.objs[j].from =>
            /\ is_solved(contacts, i) = is_solved(contacts, j)
            /\ is_solved(contacts, i) = contacts.last[contacts.objs[i].from]

\* a contact and a copy of it report false after a mark_solved(false), next to
\* an unrelated contact that reports true
C17_Witness ==
    \E i, j, k \in DOMAIN contacts.objs :
        /\ i # j
        /\ contacts.objs[i].from = contacts.objs[j].from
        /\ contacts.objs[k].from # contacts.objs[i].from
        /\ ~is_solved(contacts, i)
        /\ ~is_solved(contacts, j)
        /\ is_solved(contacts, k)

-----------------------------------------------------------------------------
(* The floe fields solve_contacts writes *)

\* C18: while solve_contacts runs no position or orientation changes; velocity,
\* angular velocity and impulse change only in the write-back of a driver call,
\* and only for the floes of the sub-graph the driver was called on.
C18_OnlyVelocitiesOfSubgraph ==
    [][pc # "idle" =>
         /\ pos' = pos
         /\ \A f \in Floes :
               (vel'[f] # vel[f] \/ rot'[f] # rot[f] \/ impulse'[f] # impulse[f])
                  => DriverStep /\ f \in vertices(CurrentGraph)]_vars

\* a write-back has changed velocities and impulses of a sub-graph and left a
\* moving floe of the graph alone
C18_Witness ==
    /\ pc = "pass"
    /\ pos = Pos0
    /\ vel # hist.pre.vel
    /\ impulse # hist.pre.impulse
    /\ \E f \in graph.floes : vel[f] # 0 /\ vel[f] = hist.pre.vel[f] /\ impulse[f] = 0

-----------------------------------------------------------------------------
(* ope::LCPManager::solve_contacts under OpenMP (specification SpecOpe).     *)
(* Each iteration of the parallel for of line 79 is a worker of its own.     *)
(* Whether the region of line 88, nested in it, runs with several threads is *)
(* the choice of the OpenMP runtime (max-active-levels).                     *)

\* the variables the ope manager leaves alone
opeFrame == <<pos, impulse, changed, memberVars, localVars, histVars, drvVars,
              lcptest_call, contacts, det, vreln_call, h5>>

\* the memory locations written inside the parallel region
OpeLocs ==
    {<<"LCP_count", 0>>} \cup {<<"floe", f>> : f \in Floes}
        \cup {<<"contact", i>> : i \in UNION {EdgeIds(s.graph) : s \in OpeScenarios}}

\* worker i has written the locations L outside a critical section
Written(wrote, L, i) == [l \in DOMAIN wrote |-> IF l \in L THEN wrote[l] \cup {i} ELSE wrote[l]]

\* line 80: a worker before its iteration
NewWorker ==
    [pc |-> "begin", asubgraphs |-> <<>>, loop_cnt |-> 0, reg |-> 0,
     task |-> <<>>, res |-> <<>>]

\* line 85: the loop condition of worker w on component g
OpeLoopCond(w, g) == Len(w.asubgraphs) # 0 /\ w.loop_cnt < 60 * num_contacts(g)

\* the implicit barrier at the end of the for of line 88
PassDone_First(w) == w.task[1] = "done"

PassDone(w) == \A j \in DOMAIN w.task : w.task[j] = "done"

\* a task of the for of line 88 has begun and not ended
Running(w) == {j \in DOMAIN w.task : w.task[j] \in {"solved", "counted"}}

\* lines 58-59 and 79
OpeCall ==
    /\ ope.pc = "idle"
    /\ \E s \in OpeScenarios, n \in BOOLEAN :
        /\ graph' = s.graph
        /\ vel' = [f \in Floes |-> s.vel[f]]
        /\ solved_flag' = [i \in EdgeIds(s.graph) |-> TRUE]
        /\ ope' = [pc |-> "run", nested |-> n, overlapped |-> FALSE,
                   subgraphs |-> collision_subgraphs(s.graph),
                   w |-> [i \in 1..Len(collision_subgraphs(s.graph)) |-> NewWorker],
                   LCP_count |-> 0, nb_success |-> 0,
                   wrote |-> [l \in OpeLocs |-> {}],
                   \* history: the active sub-graphs of the passes begun and
                   \* the driver calls that have succeeded
                   begun |-> 0, drv_ok |-> 0]
    /\ UNCHANGED <<rot, opeFrame>>

\* lines 82-84
OpeBegin(i) ==
    /\ ope.w[i].pc = "begin"
    /\ ope' = [ope EXCEPT !.w[i].pc = "while",
                          !.w[i].asubgraphs = active_subgraphs(ope.subgraphs[i], vel),
                          !.w[i].loop_cnt = 0]
    /\ UNCHANGED <<graph, vel, rot, solved_flag, opeFrame>>

\* lines 85 and 87: the loop condition holds; LCP_count is read
OpeLoad(i) ==
    /\ ope.w[i].pc = "while"
    /\ OpeLoopCond(ope.w[i], ope.subgraphs[i])
    /\ ope.w[i].loop_cnt < MaxOpePass
    /\ ope' = [ope EXCEPT !.w[i].pc = "store", !.w[i].reg = ope.LCP_count]
    /\ UNCHANGED <<graph, vel, rot, solved_flag, opeFrame>>

\* line 87: LCP_count is written; line 89: the tasks of the pass
OpeStore(i) ==
    /\ ope.w[i].pc = "store"
    /\ ope' = [ope EXCEPT
                 !.LCP_count = ope.w[i].reg + Len(ope.w[i].asubgraphs),
                 !.begun = @ + Len(ope.w[i].asubgraphs),
                 !.wrote = Written(@, {<<"LCP_count", 0>>}, i),
                 !.w[i].pc = "tasks",
                 !.w[i].reg = 0,
                 !.w[i].task = [j \in 1..Len(ope.w[i].asubgraphs) |-> "todo"],
                 !.w[i].res = [j \in 1..Len(ope.w[i].asubgraphs) |->
                                 [success |-> FALSE, Sol |-> NoSol]]]
    /\ UNCHANGED <<graph, vel, rot, solved_flag, opeFrame>>

\* lines 91-94: m_solver.solve and mark_solved of task j
OpeSolve(i, j) ==
    /\ ope.w[i].pc = "tasks"
    /\ ope.w[i].task[j] = "todo"
    /\ ~ope.nested => \A k \in 1..(j - 1) : ope.w[i].task[k] = "done"
    /\ LET g == ope.w[i].asubgraphs[j]
       IN \E r \in DriverOut(g, BuildW(g, vel, rot)) :
            /\ solved_flag' = mark_solved(solved_flag, g, r.success)
            /\ ope' = [ope EXCEPT
                         !.w[i].task[j] = "solved",
                         !.w[i].res[j] = r,
                         !.drv_ok = @ + (IF r.success THEN 1 ELSE 0),
                         !.overlapped = @ \/ Running(ope.w[i]) # {},
                         !.wrote = Written(@, {<<"contact", e>> : e \in EdgeIds(g)}, i)]
    /\ UNCHANGED <<graph, vel, rot, opeFrame>>

\* lines 95-96: if (success) nb_success++, inside the critical section
OpeCount(i, j) ==
    /\ ope.w[i].pc = "tasks"
    /\ ope.w[i].task[j] = "solved"
    /\ ope' = [ope EXCEPT
                 !.w[i].task[j] = "counted",
                 !.nb_success = @ + (IF ope.w[i].res[j].success THEN 1 ELSE 0)]
    /\ UNCHANGED <<graph, vel, rot, solved_flag, opeFrame>>

\* line 97: update_floes_state(graph, Sol), outside the critical section and
\* whatever success is
OpeWrite(i, j) ==
    /\ ope.w[i].pc = "tasks"
    /\ ope.w[i].task[j] = "counted"
    /\ LET g == ope.w[i].asubgraphs[j]
       IN /\ vel' = WriteSpeed(vel, g, ope.w[i].res[j].Sol)
          /\ rot' = WriteRot(rot, g, ope.w[i].res[j].Sol)
          /\ ope' = [ope EXCEPT
                       !.w[i].task[j] = "done",
                       !.w[i].res[j] = [success |-> FALSE, Sol |-> NoSol],
                       !.wrote = Written(@, {<<"floe", f>> : f \in vertices(g)}, i)]
    /\ UNCHANGED <<graph, solved_flag, opeFrame>>

\* lines 99-100, after the barrier of the inner for
OpeEndPass(i) ==
    /\ ope.w[i].pc = "tasks"
    /\ PassDone(ope.w[i])
    /\ ope' = [ope EXCEPT
                 !.w[i].pc = "while",
                 !.w[i].asubgraphs = active_subgraphs(ope.subgraphs[i], vel),
                 !.w[i].loop_cnt = @ + 1]
    /\ UNCHANGED <<graph, vel, rot, solved_flag, opeFrame>>

\* line 85: the loop condition fails, the iteration of line 80 ends
OpeExit(i) ==
    /\ ope.w[i].pc = "while"
    /\ ~OpeLoopCond(ope.w[i], ope.subgraphs[i])
    /\ ope' = [ope EXCEPT !.w[i].pc = "done"]
    /\ UNCHANGED <<graph, vel, rot, solved_flag, opeFrame>>

\* lines 102-105: the end of the parallel region
OpeReturn ==
    /\ ope.pc = "run"
    /\ \A i \in DOMAIN ope.w : ope.w[i].pc = "done"
    /\ ope' = [ope EXCEPT !.pc = "returned"]
    /\ UNCHANGED <<graph, vel, rot, solved_flag, opeFrame>>

OpeWorker(i) ==
    \/ OpeBegin(i)
    \/ OpeLoad(i)
    \/ OpeStore(i)
    \/ \E j \in DOMAIN ope.w[i].task : OpeSolve(i, j)
    \/ \E j \in DOMAIN ope.w[i].task : OpeCount(i, j)
    \/ \E j \in DOMAIN ope.w[i].task : OpeWrite(i, j)
    \/ OpeEndPass(i)
    \/ OpeExit(i)

NextOpe ==
    \/ OpeCall
    \/ ope.pc = "run" /\ \E i \in DOMAIN ope.w : OpeWorker(i)
    \/ OpeReturn

SpecOpe == Init /\ [][NextOpe]_vars

\* C19: in the parallel region of ope::LCPManager::solve_contacts no memory
\* location is written, outside a critical section, by two workers.
C19_NoLocationWrittenByTwo ==
    ope.pc # "idle" =>
        \A l \in DOMAIN ope.wrote : Cardinality(ope.wrote[l]) <= 1

-----------------------------------------------------------------------------
(* The quad-cut threshold of lcp::LCPManager::solve_contacts *)

\* the contacts of the graphs the driver is to be called on in a pass over the
\* active sub-graphs A: a sub-graph of at most 50 contacts whole, a larger one
\* piece by piece
RECURSIVE ExpectedCalls(_)
ExpectedCalls(A) ==
    IF A = <<>> THEN <<>>
    ELSE (IF num_contacts(Head(A)) <= 50
          THEN <<EdgeIds(Head(A))>>
          ELSE [k \in 1..Len(quad_cut(Head(A))) |-> EdgeIds(quad_cut(Head(A))[k])])
         \o ExpectedCalls(Tail(A))

\* C21: in a pass the driver is called once on every active sub-graph of at most
\* 50 contacts and once on every quad_cut piece of a larger one, in that order
\* and on nothing else, and a call sets the solved flag of the contacts of its
\* graph, and of no other, to its own success.
C21_QuadCutThreshold ==
    /\ [][pc = "pass" /\ pc' = "while" => hist.calls = ExpectedCalls(asubgraphs)]_vars
    /\ [][DriverStep =>
            \A i \in DOMAIN solved_flag :
                solved_flag'[i] = IF i \in EdgeIds(CurrentGraph)
                                  THEN hist'.drv_ok > hist.drv_ok
                                  ELSE solved_flag[i]]_vars

\* both pieces of a sub-graph of more than 50 contacts were handed to the
\* driver, which solved one and failed on the other
C21_Witness ==
    /\ pc = "pass"
    /\ gi > Len(asubgraphs)
    /\ Len(asubgraphs) = 1
    /\ num_contacts(asubgraphs[1]) > 50
    /\ Len(hist.calls) = 2
    /\ \E i, j \in DOMAIN solved_flag : solved_flag[i] /\ ~solved_flag[j]

-----------------------------------------------------------------------------
(* P5: two executions of ope::LCPManager::solve_contacts on the same graph    *)
(* and floe states, both fed the same sequence of std::rand draws             *)
(* (specification SpecDet).  The pivot solvers are functions of the matrix    *)
(* they are given: on the matrix as built they fail here, on a perturbed      *)
(* matrix they find the impulse the last draw of the perturbation leads to,   *)
(* and a draw is named by that impulse.                                       *)

\* two components, each a head-on pair
DetScenario ==
    Scenario({1, 2, 3, 4}, {Edge(1, 1, 2, 1, 1, 0, 0),
                            Edge(2, 3, 4, 1, 1, 4, 0)}, <<1, -1, 1, -1>>)

DetGraphs == collision_subgraphs(DetScenario.graph)

\* lemke(lcp) / lexicolemke(lcp) on the matrix perturbed by the draws pert
DetPivot(g, pert) ==
    IF pert = <<>>
    THEN [ok |-> FALSE, z |-> NaNZ, ub |-> FALSE]
    ELSE [ok |-> TRUE,
          z |-> [kind |-> "num", imp |-> [i \in EdgeIds(g) |-> pert[Len(pert)]], err |-> 0],
          ub |-> FALSE]

\* an iteration of the for of line 79 before it starts
DetWorker ==
    [pc |-> "begin", asubgraphs |-> <<>>, loop_cnt |-> 0, j |-> 0,
     d |-> SolveInit, pert |-> <<>>]

\* an execution at the call of solve_contacts: next is the number of draws
\* std::rand has handed out
DetRun ==
    [next |-> 0,
     vel |-> [f \in Floes |-> DetScenario.vel[f]],
     rot |-> Rot0,
     flags |-> [i \in EdgeIds(DetScenario.graph) |-> TRUE],
     nb_success |-> 0,
     w |-> [i \in 1..Len(DetGraphs) |-> DetWorker]]

InitDet ==
    /\ IdleManager
    /\ IdleDriver
    /\ lcptest_call = NoCall
    /\ contacts = NoContacts
    /\ ope = IdleOpe
    /\ vreln_call = NoCall
    /\ h5 = NoH5
    /\ det \in {[draws |-> q, run |-> <<DetRun, DetRun>>] : q \in [1..MaxDraws -> 1..MaxZ]}

detFrame == <<mgrVars, drvVars, lcptest_call, contacts, ope, vreln_call, h5>>

\* ope/LCP_manager.hpp lines 82-84
DetBegin(x, i) ==
    LET r == det.run[x] IN
    /\ r.w[i].pc = "begin"
    /\ det' = [det EXCEPT !.run[x].w[i].pc = "while",
                          !.run[x].w[i].asubgraphs = active_subgraphs(DetGraphs[i], r.vel)]
    /\ UNCHANGED detFrame

\* lines 85-93: the loop condition holds, solve begins on the first sub-graph
DetEnter(x, i) ==
    LET r == det.run[x] IN
    /\ r.w[i].pc = "while"
    /\ OpeLoopCond(r.w[i], DetGraphs[i])
    /\ det' = [det EXCEPT !.run[x].w[i].pc = "solve",
                          !.run[x].w[i].j = 1,
                          !.run[x].w[i].d = SolveInit,
                          !.run[x].w[i].pert = <<>>]
    /\ UNCHANGED detFrame

\* ope/LCP_solver.hpp lines 102-163: one pass of the loop of solve; strategy 0
\* is random_perturbation (lines 209-218), which takes the next draw of
\* std::rand (line 244), whoever calls
DetSolveStep(x, i) ==
    LET r == det.run[x]
        w == r.w[i]
        g == w.asubgraphs[w.j]
        draws == ~Exhausted(w.d.comptchgt) /\ Strategy(w.d.comptchgt) = 0
    IN
    /\ w.pc = "solve"
    /\ w.d.pc # "returned"
    /\ draws => r.next < MaxDraws
    /\ det' = [det EXCEPT
                 !.run[x].next = IF draws THEN @ + 1 ELSE @,
                 !.run[x].w[i].pert = IF draws THEN Append(@, det.draws[r.next + 1]) ELSE @,
                 !.run[x].w[i].d =
                     SolveStep(w.d, g, BuildW(g, r.vel, r.rot), DetPivot(g, w.pert))]
    /\ UNCHANGED detFrame

\* ope/LCP_manager.hpp lines 94-100: mark_solved, nb_success, update_floes_state,
\* then the next sub-graph or the end of the pass
DetWrite(x, i) ==
    LET r == det.run[x]
        w == r.w[i]
        g == w.asubgraphs[w.j]
        vel2 == WriteSpeed(r.vel, g, w.d.ret)
    IN
    /\ w.pc = "solve"
    /\ w.d.pc = "returned"
    /\ det' = [det EXCEPT
                 !.run[x].flags = mark_solved(@, g, w.d.success),
                 !.run[x].nb_success = @ + (IF w.d.success THEN 1 ELSE 0),
                 !.run[x].vel = vel2,
                 !.run[x].rot = WriteRot(@, g, w.d.ret),
                 !.run[x].w[i] =
                     IF w.j < Len(w.asubgraphs)
                     THEN [w EXCEPT !.j = @ + 1, !.d = SolveInit, !.pert = <<>>]
                     ELSE [w EXCEPT !.pc = "while", !.loop_cnt = @ + 1,
                                    !.asubgraphs = active_subgraphs(DetGraphs[i], vel2)]]
    /\ UNCHANGED detFrame

\* line 85: the loop condition fails
DetExit(x, i) ==
    LET r == det.run[x] IN
    /\ r.w[i].pc = "while"
    /\ ~OpeLoopCond(r.w[i], DetGraphs[i])
    /\ det' = [det EXCEPT !.run[x].w[i].pc = "done"]
    /\ UNCHANGED detFrame

NextDet ==
    \E x \in DOMAIN det.run : \E i \in DOMAIN det.run[x].w :
        \/ DetBegin(x, i)
        \/ DetEnter(x, i)
        \/ DetSolveStep(x, i)
        \/ DetWrite(x, i)
        \/ DetExit(x, i)

SpecDet == InitDet /\ [][NextDet]_vars

\* execution x has returned
DetDone(x) == \A i \in DOMAIN det.run[x].w : det.run[x].w[i].pc = "done"

\* C22: two executions on the same graph and floe states that were given the
\* same sequence of draws end with the same z and Solc for every component, the
\* same floe velocities, the same solved flags and the same success count.
C22_SameDrawsSameResult ==
    DetDone(1) /\ DetDone(2) =>
        /\ \A i \in DOMAIN det.run[1].w :
              /\ det.run[1].w[i].d.best_z = det.run[2].w[i].d.best_z
              /\ det.run[1].w[i].d.ret = det.run[2].w[i].d.ret
        /\ det.run[1].vel = det.run[2].vel
        /\ det.run[1].flags = det.run[2].flags
        /\ det.run[1].nb_success = det.run[2].nb_success

-----------------------------------------------------------------------------
(* Termination of lcp::LCPManager::solve_contacts (specification SpecFair) *)

\* the loop of the component is left
LeavesLoop == pc = "while" /\ pc' = "record"

\* C23: a call of solve_contacts returns, and the loop of a component is left
\* only with no active sub-graph, or after a pass without a success, or with
\* the budget of min(60 * num_contacts, 1000) passes used up.
C23_ReturnsForAReason ==
    /\ (pc # "idle") ~> (pc = "idle")
    /\ [][LeavesLoop =>
            \/ Len(asubgraphs) = 0
            \/ loop_cnt > 0 /\ loop_nb_success_in = 0
            \/ loop_cnt >= 60 * num_contacts(subgraph)
            \/ loop_cnt >= 1000]_vars

\* a call has returned after a component ran out of budget and another ended
\* with no active sub-graph
C23_Witness ==
    /\ pc = "idle"
    /\ hist.gave_up # {}
    /\ \E i \in DOMAIN solved_flag : i \notin hist.gave_up /\ hist.drv_ok > 0

-----------------------------------------------------------------------------
(* ope::LCPSolver::VRelNtest on its own (specification SpecVRelN).  A graph   *)
(* is the sequence of its edges, an edge the sequence of the dist of its      *)
(* contact points, V the normal relative velocities by contact_id.            *)

\* line 234: ++contact_id
AfterContact_Same(contact_id) == contact_id

AfterContact(contact_id) == contact_id + 1

\* lines 222-237: the two nested loops from contact k of edge e on; the C++
\* contact_id 0 is index 1 here
RECURSIVE VRelNScan(_, _, _, _, _)
VRelNScan(V, G, e, k, contact_id) ==
    IF e > Len(G) THEN TRUE
    ELSE IF k > Len(G[e]) THEN VRelNScan(V, G, e + 1, 1, contact_id)
    ELSE IF V[contact_id] < 0 /\ V[contact_id] * DT_DEFAULT * 50 > G[e][k] THEN FALSE
    ELSE VRelNScan(V, G, e, k + 1, AfterContact(contact_id))

\* the sequences of 1..MaxPoints elements of S
SeqsUpTo(S) == UNION {[1..n -> S] : n \in 1..MaxPoints}

\* gaps: open, and penetrations just within and just beyond the bound at speed -1
DistInputs == {1, -50 * DT_DEFAULT, -50 * DT_DEFAULT - 1}

SpeedInputs == {-1, 0, 1}

\* the number of contact points of G
NumPoints(G) == SumOver(DOMAIN G, [e \in DOMAIN G |-> Len(G[e])])

VRelNInputs ==
    UNION {{[G |-> G, V |-> V] : V \in [1..NumPoints(G) -> SpeedInputs]} :
           G \in SeqsUpTo(SeqsUpTo(DistInputs))}

InitVRelN ==
    /\ IdleManager
    /\ IdleDriver
    /\ lcptest_call = NoCall
    /\ contacts = NoContacts
    /\ ope = IdleOpe
    /\ det = NoDet
    /\ vreln_call \in {[done |-> FALSE, in |-> i] : i \in VRelNInputs}
    /\ h5 = NoH5

\* lines 220-238
CallVRelN ==
    /\ ~vreln_call.done
    /\ vreln_call' = [done |-> TRUE, in |-> vreln_call.in,
                      resp |-> VRelNScan(vreln_call.in.V, vreln_call.in.G, 1, 1, 1)]
    /\ UNCHANGED <<mgrVars, drvVars, lcptest_call, contacts, ope, det, h5>>

NextVRelN == CallVRelN

SpecVRelN == InitVRelN /\ [][NextVRelN]_vars

\* the dist of the contact point with the given contact_id, edges in order and
\* the points of an edge in list order
RECURSIVE DistOf(_, _)
DistOf(G, contact_id) ==
    IF contact_id <= Len(Head(G)) THEN Head(G)[contact_id]
    ELSE DistOf(Tail(G), contact_id - Len(Head(G)))

\* C24: VRelNtest returns false exactly when some contact c has u[c] < 0 and
\* u[c] * DT_DEFAULT > dist_c / 50, and so returns true when no u[c] is negative.
C24_VRelNtestIsReference ==
    vreln_call.done =>
        LET i == vreln_call.in IN
        /\ vreln_call.resp =
              ~ \E c \in 1..NumPoints(i.G) :
                    i.V[c] < 0 /\ i.V[c] * DT_DEFAULT * 50 > DistOf(i.G, c)
        /\ (\A c \in 1..NumPoints(i.G) : i.V[c] >= 0) => vreln_call.resp

\* VRelNtest has returned false for a contact that is not the first of its edge,
\* on a graph whose first contact separates
C24_Witness ==
    /\ vreln_call.done
    /\ ~vreln_call.resp
    /\ vreln_call.in.V[1] > 0
    /\ Len(vreln_call.in.G) = 2
    /\ \A c \in 1..(NumPoints(vreln_call.in.G) - 1) : vreln_call.in.V[c] >= 0

-----------------------------------------------------------------------------
\* a pass of the loop of solve that reaches LCPtest
TestingPass ==
    /\ drv.pc = "loop"
    /\ drv'.tested
    /\ drv'.iters = drv.iters + 1
    /\ drv'.test_iter = drv'.iters

\* C25: in every pass that reaches LCPtest, the tier passed to it is the tier
\* of the table entry whose strategy the pass has run, although it is read
\* after the step counter was incremented.
C25_TierOfTheStrategyRun ==
    [][TestingPass =>
          /\ Strategy(drv.comptchgt) \in {1, 2}
          /\ drv'.test_read = drv.comptchgt + 1
          /\ drv'.test_tier = Tier(drv.comptchgt)]_vars

\* LCPtest has accepted at tier 2 after the lexicolemke of entry 17, the tier
\* being read from entry 18
C25_Witness ==
    /\ drv.pc = "returned"
    /\ drv.success
    /\ drv.test_read = 18
    /\ drv.test_tier = 2
    /\ drv.test_iter = 18

\* C26: every read MatLCP[comptchgt] of solve, of the strategy at the top of a
\* pass and of the tier before LCPtest, has its index in 0..22, whatever the
\* pivot solvers answer.
C26_ReadsInsideTable ==
    /\ ~drv.oob
    /\ drv.comptchgt \in 0..Len(MatLCP)
    /\ drv.pc = "loop" /\ ~Exhausted(drv.comptchgt) => drv.comptchgt \in 0..22
    /\ drv.tested => drv.test_read \in 0..22

\* the lexicolemke of entry 21, the last that can report success, has
\* succeeded and the tier was read from entry 22
C26_Witness ==
    /\ drv.tested
    /\ drv.test_read = 22
    /\ drv.test_iter = 22
    /\ drv.last = "tested"

-----------------------------------------------------------------------------
(* ope::LCPSolver::LCPtest called at several tiers on the same solution       *)
(* (specification SpecTiers)                                                  *)

\* the argument compt: the tiers of MatLCP and values on both sides of them
TierInputs == 0..4

\* EC, Err and VRelNtest of one solution; Err can be NaN
SolutionInputs ==
    [build : AbsBuilds, EC : RhoInputs, Err : ErrInputs \cup {ErrNaN},
     VRelNtest : BOOLEAN]

InitTiers ==
    /\ IdleManager
    /\ IdleDriver
    /\ contacts = NoContacts
    /\ ope = IdleOpe
    /\ det = NoDet
    /\ vreln_call = NoCall
    /\ h5 = NoH5
    /\ lcptest_call \in {[done |-> FALSE, in |-> i, called |-> {}, resp |-> <<>>] :
                           i \in SolutionInputs}

\* lines 170-188, for compt = t
CallTier(t) ==
    /\ t \notin lcptest_call.called
    /\ lcptest_call' =
          [done |-> TRUE, in |-> lcptest_call.in,
           called |-> lcptest_call.called \cup {t},
           resp |-> LET i == lcptest_call.in
                    IN [u \in lcptest_call.called \cup {t} |->
                          IF u = t THEN LCPtest(i.build, t, i.EC, 1, i.Err, i.VRelNtest)
                          ELSE lcptest_call.resp[u]]]
    /\ UNCHANGED <<mgrVars, drvVars, contacts, ope, det, vreln_call, h5>>

NextTiers == \E t \in TierInputs : CallTier(t)

SpecTiers == InitTiers /\ [][NextTiers]_vars

\* C27: on the same (rho, Err, V), LCPtest accepting at tier 1 accepts at tier 2
\* and accepting at tier 2 accepts at tier 3; a tier outside {1, 2, 3} is
\* accepted whatever the solution.
C27_TiersNested ==
    lcptest_call.done =>
        LET r == lcptest_call IN
        /\ {1, 2} \subseteq r.called /\ r.resp[1] => r.resp[2]
        /\ {2, 3} \subseteq r.called /\ r.resp[2] => r.resp[3]
        /\ \A t \in r.called \ {1, 2, 3} : r.resp[t]

\* a solution with an error at the tolerance of tier 1 has been accepted at
\* the three tiers, by the build with the floating-point abs
C27_Witness ==
    /\ lcptest_call.done
    /\ lcptest_call.called = TierInputs
    /\ lcptest_call.in.build = "double"
    /\ lcptest_call.in.Err = -TolTier1
    /\ lcptest_call.resp[1] /\ lcptest_call.resp[2] /\ lcptest_call.resp[3]

-----------------------------------------------------------------------------
\* C28: when the loop of a component ends with no active sub-graph left, every
\* contact of the component that was handed to the driver in the call is marked
\* solved, also a contact of a quad_cut piece whose solve failed in an earlier
\* pass.
C28_SolvedOnCleanExit ==
    [][Resolved =>
          \A i \in EdgeIds(subgraph) \cap hist.handed : solved_flag[i]]_vars

-----------------------------------------------------------------------------
\* solve_contacts is about to return (line 246)
AtReturn == pc = "for" /\ ci > Len(subgraphs)

\* C29: in every call of solve_contacts nb_success <= LCP_count and LCP_count
\* is the number of driver calls made; so m_nb_lcp_success <= m_nb_lcp, neither
\* counter decreases, and success_ratio() is between 0 and 100.
C29_CountersConsistent ==
    /\ AtReturn => nb_success <= LCP_count
    /\ AtReturn /\ hist.counted => LCP_count = hist.ndrv
    /\ m_nb_lcp_success <= m_nb_lcp
    /\ m_nb_lcp >= hist.pre.m_nb_lcp
    /\ m_nb_lcp_success >= hist.pre.m_nb_lcp_success
    /\ success_ratio.num >= 0
    /\ success_ratio.num <= 100 * success_ratio.den

-----------------------------------------------------------------------------
\* C30: whatever the interleaving of the workers of ope::LCPManager::
\* solve_contacts, on return LCP_count is the sum over the components and their
\* passes of the number of active sub-graphs, and nb_success is the number of
\* driver calls that succeeded.
C30_NoLostUpdate ==
    ope.pc = "returned" =>
        /\ ope.LCP_count = ope.begun
        /\ ope.nb_success = ope.drv_ok

-----------------------------------------------------------------------------
\* a step in which saving_contact_graph_in_hdf5 is called
SinkStep == Len(hist'.sunk) > Len(hist.sunk)

-----------------------------------------------------------------------------
(* io::HDF5Manager::save_step and write_chunk (specification SpecSave).  A    *)
(* buffered step is the number of the save_step call that pushed it.          *)

\* line 44: m_flush_max_step{100}
m_flush_max_step == 100

\* lines 44-47: the manager after construction, for a floe group of nf floes.
\* m_data_chunk_time is reserved, not resized: its size is 0 and stays 0, the
\* times are stored at line 131 in its capacity.
NewH5(nf) ==
    [pc |-> "ready", nf |-> nf, m_out_file |-> FALSE, m_step_count |-> 0,
     m_chunk_step_count |-> 0, m_data_chunk_boundaries |-> <<>>,
     m_data_chunk_frames |-> <<>>, m_data_chunk_time |-> <<>>,
     \* history: write_chunk was called by the last save_step, and where an
     \* HDF5 exception left it
     flushed |-> FALSE, failed |-> "none"]

\* where an exception that write_chunk catches can be raised: in new H5File
\* (line 159), in write_boundaries before the copy of line 240, in
\* write_frames, in write_time
WriteOutcomes(h) ==
    {"none", "boundaries", "frames", "time"} \cup
        (IF h.m_out_file THEN {} ELSE {"file"})

\* lines 193-253; the copy of lines 240-247 runs over the whole buffer of a
\* floe into an array of m_chunk_step_count steps
write_boundaries(h, fail) ==
    IF fail = "boundaries" THEN h
    ELSE IF \E i \in DOMAIN h.m_data_chunk_boundaries :
               Len(h.m_data_chunk_boundaries[i]) > h.m_chunk_step_count
    THEN [h EXCEPT !.pc = "overflow"]
    ELSE [h EXCEPT !.m_data_chunk_boundaries = <<>>]

\* lines 259-309
write_frames(h, fail) ==
    IF fail = "frames" THEN h
    ELSE [h EXCEPT !.m_data_chunk_frames = <<>>]

\* lines 315-355
write_time(h, fail) ==
    IF fail = "time" THEN h
    ELSE [h EXCEPT !.m_data_chunk_time = <<>>]

\* lines 144-189: an exception leaves the try block at once and is caught
write_chunk(h, fail) ==
    IF fail = "file" THEN h
    ELSE LET h0 == [h EXCEPT !.m_out_file = TRUE]
             h1 == write_boundaries(h0, fail)
         IN IF fail = "boundaries" \/ h1.pc = "overflow" THEN h1
            ELSE LET h2 == write_frames(h1, fail)
                 IN IF fail = "frames" THEN h2
                    ELSE write_time(h2, fail)

\* lines 81-141
save_step(h, fail) ==
    LET step == h.m_step_count + 1
        B == IF Len(h.m_data_chunk_boundaries) = 0
             THEN [i \in 1..h.nf |-> <<>>]
             ELSE h.m_data_chunk_boundaries
        h1 == [h EXCEPT
                 !.m_data_chunk_boundaries = [i \in 1..h.nf |-> Append(B[i], step)],
                 !.m_data_chunk_frames = Append(@, step),
                 !.m_step_count = step,
                 !.m_chunk_step_count = @ + 1,
                 !.flushed = FALSE,
                 !.failed = "none"]
    IN IF h1.m_step_count % m_flush_max_step = 0
       THEN LET h2 == write_chunk(h1, fail)
            IN [h2 EXCEPT !.m_chunk_step_count = 0, !.flushed = TRUE, !.failed = fail]
       ELSE h1

InitSave ==
    /\ IdleManager
    /\ IdleDriver
    /\ IdleUnits

\* line 44: HDF5Manager()
ConstructH5 ==
    /\ h5 = NoH5
    /\ \E nf \in 1..2 : h5' = NewH5(nf)
    /\ UNCHANGED <<mgrVars, drvVars, lcptest_call, contacts, ope, det, vreln_call>>

\* lines 81-141: one call of save_step
SaveStep ==
    /\ h5.pc = "ready"
    /\ h5.m_step_count < MaxSteps
    /\ \E fail \in (IF (h5.m_step_count + 1) % m_flush_max_step = 0
                    THEN WriteOutcomes(h5) ELSE {"none"}) :
          h5' = save_step(h5, fail)
    /\ UNCHANGED <<mgrVars, drvVars, lcptest_call, contacts, ope, det, vreln_call>>

NextSave ==
    \/ ConstructH5
    \/ SaveStep

SpecSave == InitSave /\ [][NextSave]_vars

\* C32: after every save_step the frame buffer holds m_chunk_step_count steps,
\* which is m_step_count mod 100; write_chunk has run exactly when m_step_count
\* has become a multiple of 100, and then every chunk buffer is empty, also
\* when write_chunk has caught an HDF5 exception.
C32_BufferMatchesCount ==
    (h5.pc = "ready" /\ h5.m_step_count > 0) =>
        /\ Len(h5.m_data_chunk_frames) = h5.m_chunk_step_count
        /\ h5.m_chunk_step_count = h5.m_step_count % 100
        /\ h5.flushed <=> h5.m_step_count % 100 = 0
        /\ h5.flushed => /\ h5.m_data_chunk_boundaries = <<>>
                         /\ h5.m_data_chunk_frames = <<>>
                         /\ h5.m_data_chunk_time = <<>>

-----------------------------------------------------------------------------
(* io::HDF5Manager::recover_states, the choice of the record (specification   *)
(* SpecRecover).  data_time holds the n = dims_out[0] recorded times, in       *)
(* increasing order; C++ index i is element i + 1 here.                        *)

\* line 393: --i on the unsigned 64-bit hsize_t; -1 stands for the wrapped
\* value 2^64 - 1
Decrement(i) == IF i = 0 THEN -1 ELSE i - 1

\* lines 390-392: hsize_t i = 0; while (data_time[i] < time && i < dims_out[0]) ++i;
\* data_time[i] is read before i is compared with n: at i = n the read is past
\* the end of the array and below tells whether the value found there is
\* below time.  The result is the final i and the indices read.
RECURSIVE ScanTimes(_, _, _, _, _)
ScanTimes(data_time, time, i, reads, below) ==
    LET n == Len(data_time)
        lt == IF i < n THEN data_time[i + 1] < time ELSE below
    IN IF lt /\ i < n
       THEN ScanTimes(data_time, time, i + 1, reads \cup {i}, below)
       ELSE [i |-> i, reads |-> reads \cup {i}]

\* the files with 1..MaxRecords increasing times and the requested times
RecoverInputs ==
    UNION {{[data_time |-> d, time |-> t] : t \in 0..(MaxTime + 1)} :
           d \in {e \in UNION {[1..n -> 1..MaxTime] : n \in 1..MaxRecords} :
                    \A j \in 1..(Len(e) - 1) : e[j] < e[j + 1]}}

InitRecover ==
    /\ IdleManager
    /\ IdleDriver
    /\ lcptest_call = NoCall
    /\ contacts = NoContacts
    /\ ope = IdleOpe
    /\ det = NoDet
    /\ vreln_call = NoCall
    /\ h5 \in {[pc |-> "recover", in |-> x] : x \in RecoverInputs}

\* lines 376-393
Recover ==
    /\ h5.pc = "recover"
    /\ \E below \in BOOLEAN :
         LET r == ScanTimes(h5.in.data_time, h5.in.time, 0, {}, below)
         IN h5' = [pc |-> "recovered", in |-> h5.in, i |-> Decrement(r.i),
                   reads |-> r.reads]
    /\ UNCHANGED <<mgrVars, drvVars, lcptest_call, contacts, ope, det, vreln_call>>

NextRecover == Recover

SpecRecover == InitRecover /\ [][NextRecover]_vars

\* C33: for n >= 1 recorded times and any requested time, recover_states
\* chooses an index i in 0..n-1, the last record whose time is strictly below
\* the requested time, reads data_time at no index >= n and does not wrap the
\* unsigned index, also when the requested time is not above the first
\* recorded time or is above all of them.
C33_IndexInsideRecords ==
    h5.pc = "recovered" =>
        LET n == Len(h5.in.data_time) IN
        /\ h5.i # -1
        /\ h5.i >= 0 /\ h5.i < n
        /\ h5.in.data_time[h5.i + 1] < h5.in.time
        /\ \A j \in (h5.i + 1)..(n - 1) : ~(h5.in.data_time[j + 1] < h5.in.time)
        /\ \A j \in h5.reads : j < n

====
